---- MODULE Spec2Model ----
(***************************************************************************)
(* The ledger / transaction engine of the wallet system:                   *)
(*   blockchain.Blockchain  (Chain, Pending, UTXOs, one RWMutex)           *)
(*   services.TransactionService (SelectUTXOs, CreateTransaction,          *)
(*                                ValidateTransaction, CreateZakatTx)      *)
(*   services.ZakatService   (ProcessMonthlyZakat)                         *)
(*   api.Server              (handleCreateWallet, handleSend, handleMine)  *)
(* Every step below is one critical section of the code (one acquisition   *)
(* of the Blockchain mutex) together with the lock-free code around it.    *)
(***************************************************************************)
EXTENDS Integers, Sequences, FiniteSets, Bags, TLC

VARIABLES
    wallets,        \* wallet.Store.wallets: the registered wallet ids
    Chain,          \* Blockchain.Chain
    Pending,        \* Blockchain.Pending
    UTXOs,          \* Blockchain.UTXOs: key -> UTXO
    now,            \* the reading of the wall clock (time.Now)
    faucets,        \* number of CreateFaucetUTXO calls so far
    sends,          \* number of transactions CreateTransaction has built so far
    cycles,         \* number of ProcessMonthlyZakat runs started so far
    pc,             \* handleSend goroutines: "idle" | "built" | "validated"
                    \* ("altered": a built transaction changed by its holder)
    tx,             \* handleSend goroutines: the transaction built (or NoTx)
    sel,            \* handleSend goroutines: what SelectUTXOs returned to the build
    zs,             \* the zakat scheduler goroutine: position and locals
    lastProcessed,  \* ZakatService.lastProcessed: wallet -> time of last deduction
    life,           \* ZakatService.ticker and done, the scheduler loop, and Stop
    mu,             \* Blockchain.mu: the position of the Mine call that holds it
    seen            \* what the last read of a handler that takes no lock returned

vars == <<wallets, Chain, Pending, UTXOs, now, faucets, sends, cycles,
          pc, tx, sel, zs, lastProcessed, life, mu, seen>>

ledger == <<Chain, UTXOs, Pending>>
handlers == <<pc, tx, sel>>
scheduler == <<zs, lastProcessed>>
counters == <<faucets, sends, cycles>>
control == <<life, mu, seen>>

---------------------------------------------------------------------------
\* Bounds of the model.

\* the clock takes the readings 0..MaxTime
MaxTime == 1
\* blocks sealed on top of the genesis block
MaxBlocks == 2
\* wallet creations (faucet grants)
MaxFaucet == 2
\* length of the pending pool
MaxPending == 2
\* concurrent handleSend requests
NumSenders == 2
\* transactions built by handleSend plus runs of ProcessMonthlyZakat
MaxRequests == 3
\* runs of ProcessMonthlyZakat
MaxCycles == 1
\* runs of ProcessMonthlyZakat when the scheduler runs on its own
MaxLevyCycles == 3
\* the last clock reading when the scheduler runs on its own
MaxLevyTime == 2
\* the hash search's iteration budget (stands for the code's 10,000,000)
MaxIterations == 2

\* Program constants.
MiningReward == 50
FaucetAmount == 1000
ZakatNisab == 500
ZakatIntervalDays == 30
\* ZakatRate = 0.025, as thousandths
ZakatRatePerMille == 25
\* days of wall-clock time between two readings of the model's clock
DaysPerTick == 15
\* Unix time (seconds) of clock reading 0
Epoch == 1700000000
\* the largest Unicode code point, 0x10FFFF
MaxRune == 1114111
\* U+FFFD, what Go's string(int) gives for an invalid code point
RuneError == 65533
\* the surrogate range 0xD800..0xDFFF
SurrogateMin == 55296
SurrogateMax == 57343

---------------------------------------------------------------------------
\* Accounts and keys.

Wallets == {"A", "B"}
ZakatPool == "ZAKAT_POOL"
Coinbase == "COINBASE"
\* a wallet id no wallet was ever created for
UnknownWallet == "X"
Senders == 1..NumSenders

\* An Ed25519 key pair per wallet; a key is <<kind, owner>>: "pub" is the hex
\* of 32 bytes, "priv" the hex of 64 bytes.  NotHex is a key string that
\* hex.DecodeString rejects ("SYSTEM", "system"), ShortHex a hex string of
\* some other number of bytes.
PubKeyOf(w) == <<"pub", w>>
PrivKeyOf(w) == <<"priv", w>>
PubKeys == {PubKeyOf(w) : w \in Wallets}
PrivKeys == {PrivKeyOf(w) : w \in Wallets}
NotHex(s) == <<"nothex", s>>
ShortHex(s) == <<"short", s>>
IsHexKey(k) == k[1] # "nothex"

\* WalletIDFromPub: hex(sha256(pub))[:40]; an error for a non-hex string
WalletIDFromPub(pub) ==
    IF IsHexKey(pub) THEN [err |-> FALSE, id |-> pub[2]]
                     ELSE [err |-> TRUE, id |-> ""]

\* encoding/json coerces a string to valid UTF-8: every invalid byte is
\* written as the escape \ufffd.  Strings are modelled by name; "<FF>" and
\* "<FE>" are two strings that differ in one invalid byte (0xFF, 0xFE).
JsonString(s) == IF s \in {"<FF>", "<FE>"} THEN "<\\ufffd>" ELSE s

\* MarshalPayload: json.Marshal of a map, keys in sorted order
MarshalPayload(sender, receiver, amount, timestamp, note) ==
    <<amount, JsonString(note), JsonString(receiver), JsonString(sender), timestamp>>

\* SignWithPriv: an error unless priv is hex of an Ed25519 private key
SignWithPriv(priv, payload) ==
    IF IsHexKey(priv) /\ priv[1] = "priv"
    THEN [err |-> FALSE, sig |-> <<"sig", priv[2], payload>>]
    ELSE [err |-> TRUE, sig |-> <<"nosig", "", <<>>>>]

\* VerifySignature: ed25519.Verify(pub, message, sig); a non-hex key or
\* signature is an error, and ed25519.Verify panics on a public key that is
\* not 32 bytes long
VerifySignature(pub, message, sig) ==
    IF ~IsHexKey(pub) \/ sig[1] # "sig"
    THEN [err |-> TRUE, ok |-> FALSE, panic |-> FALSE]
    ELSE IF pub[1] # "pub"
    THEN [err |-> FALSE, ok |-> FALSE, panic |-> TRUE]
    ELSE [err |-> FALSE, ok |-> sig = <<"sig", pub[2], message>>, panic |-> FALSE]

---------------------------------------------------------------------------
\* Identifiers, UTXOs and transactions.

\* fmt.Sprintf("tx-%d", UnixNano), "zakat-%d", "coinbase-%d-%d",
\* "faucet-%s-%d": <<kind, wallet, index, clock reading>>
TxID(kind, w, i, t) == <<kind, w, i, t>>
NoID == <<"", "", 0, 0>>

\* the map key fmt.Sprintf("%s:%d", txid, index)
UTXOKey(txid, index) == <<txid, index>>
NoKey == <<NoID, 0>>

\* Unix(): the clock reading in seconds
Unix(t) == Epoch + t

UTXORef(u) == [TxID |-> u.OriginTx, Index |-> u.Index]
RefKey(r) == UTXOKey(r.TxID, r.Index)

MkUTXO(owner, amount, origin, index) ==
    [ID |-> NoKey, Owner |-> owner, Amount |-> amount,
     OriginTx |-> origin, Index |-> index, Spent |-> FALSE]

NoTx ==
    [ID |-> NoID, SenderID |-> "", ReceiverID |-> "", Amount |-> 0, Note |-> "",
     Timestamp |-> 0, PubKey |-> NotHex(""), Signature |-> <<"nosig", "", <<>>>>,
     Inputs |-> <<>>, Outputs |-> <<>>, Type |-> ""]

RECURSIVE SumSeq(_)
SumSeq(s) == IF s = <<>> THEN 0 ELSE Head(s) + SumSeq(Tail(s))

Amounts(us) == [i \in DOMAIN us |-> us[i].Amount]

---------------------------------------------------------------------------
\* TransactionService.

\* the UTXOs the range loop collects: owned by walletID and not spent
Available(U, walletID) ==
    {k \in DOMAIN U : U[k].Owner = walletID /\ ~U[k].Spent}

\* Go ranges over a map in an unspecified order and sort.Slice orders by
\* amount only, so `available` ends up in any order that is descending by
\* amount.
DescendingOrders(U, S) ==
    {o \in [1..Cardinality(S) -> S] :
        /\ \A i, j \in 1..Cardinality(S) : i # j => o[i] # o[j]
        /\ \A i, j \in 1..Cardinality(S) : i < j => U[o[i]].Amount >= U[o[j]].Amount}

\* an accumulation loop that stops only once total > amount
RECURSIVE Accumulate_Strict(_, _, _, _)
Accumulate_Strict(rest, amount, selected, total) ==
    IF rest = <<>> \/ total > amount
    THEN [selected |-> selected, total |-> total]
    ELSE Accumulate_Strict(Tail(rest), amount, Append(selected, Head(rest)),
                           total + Head(rest).Amount)

\* the accumulation loop: stop as soon as total >= amount
RECURSIVE Accumulate(_, _, _, _)
Accumulate(rest, amount, selected, total) ==
    IF rest = <<>> \/ total >= amount
    THEN [selected |-> selected, total |-> total]
    ELSE Accumulate(Tail(rest), amount, Append(selected, Head(rest)),
                    total + Head(rest).Amount)

SelectFrom(available, amount) ==
    LET r == Accumulate(available, amount, <<>>, 0)
    IN  IF r.total < amount
        THEN [err |-> TRUE, selected |-> <<>>, total |-> 0]
        ELSE [err |-> FALSE, selected |-> r.selected, total |-> r.total]

\* SelectUTXOs: the results a call may return in UTXO state U
SelectUTXOs(U, walletID, amount) ==
    {SelectFrom([i \in DOMAIN o |-> U[o[i]]], amount) :
        o \in DescendingOrders(U, Available(U, walletID))}

\* outputs with a change output even when nothing is left over
BuildOutputs_AlwaysChange(txID, receiver, change_to, amount, total) ==
    <<MkUTXO(receiver, amount, txID, 0), MkUTXO(change_to, total - amount, txID, 1)>>

\* the outputs CreateTransaction and CreateZakatTransaction build
BuildOutputs(txID, receiver, change_to, amount, total) ==
    LET change == total - amount
    IN  <<MkUTXO(receiver, amount, txID, 0)>> \o
        (IF change > 0 THEN <<MkUTXO(change_to, change, txID, 1)>> ELSE <<>>)

BuildInputs(selected) == [i \in DOMAIN selected |-> UTXORef(selected[i])]

BuildFailed == [err |-> TRUE, tx |-> NoTx, selected |-> <<>>]

\* CreateTransaction: the results a call may return; W is the wallet store,
\* U the UTXO set, t the clock reading
CreateTransaction(W, U, t, senderID, receiverID, amount, note, pubKey, privKey) ==
    IF senderID \notin W \/ receiverID \notin W THEN {BuildFailed}
    ELSE
    { IF s.err THEN BuildFailed
      ELSE LET txID == TxID("tx", "", 0, t)
               timestamp == Unix(t)
               sg == SignWithPriv(privKey,
                        MarshalPayload(senderID, receiverID, amount, timestamp, note))
           IN  IF sg.err THEN BuildFailed
               ELSE [err |-> FALSE, selected |-> s.selected,
                     tx |-> [ID |-> txID, SenderID |-> senderID,
                             ReceiverID |-> receiverID, Amount |-> amount,
                             Note |-> note, Timestamp |-> timestamp,
                             PubKey |-> pubKey, Signature |-> sg.sig,
                             Inputs |-> BuildInputs(s.selected),
                             Outputs |-> BuildOutputs(txID, receiverID, senderID,
                                                      amount, s.total),
                             Type |-> "transfer"]]
      : s \in SelectUTXOs(U, senderID, amount) }

\* CreateZakatTransaction: no wallet check, no signature
CreateZakatTransaction(U, t, walletID, zakatAmount) ==
    { IF s.err THEN BuildFailed
      ELSE LET txID == TxID("zakat", "", 0, t)
           IN  [err |-> FALSE, selected |-> s.selected,
                tx |-> [ID |-> txID, SenderID |-> walletID,
                        ReceiverID |-> ZakatPool, Amount |-> zakatAmount,
                        Note |-> "Monthly Zakat Deduction (2.5%)",
                        Timestamp |-> Unix(t),
                        PubKey |-> NotHex("system"),
                        Signature |-> <<"nosig", "system", <<>>>>,
                        Inputs |-> BuildInputs(s.selected),
                        Outputs |-> BuildOutputs(txID, ZakatPool, walletID,
                                                 zakatAmount, s.total),
                        Type |-> "zakat_deduction"]]
      : s \in SelectUTXOs(U, walletID, zakatAmount) }

\* the keys a transaction's inputs refer to
InputKeys(t) == {RefKey(t.Inputs[i]) : i \in DOMAIN t.Inputs}

\* the amount the map lookup UTXOs[key] yields: the zero value for a missing key
InputAmount(U, r) == IF RefKey(r) \in DOMAIN U THEN U[RefKey(r)].Amount ELSE 0

InputTotal(U, t) == SumSeq([i \in DOMAIN t.Inputs |-> InputAmount(U, t.Inputs[i])])
OutputTotal(t) == SumSeq(Amounts(t.Outputs))

\* the three checks ValidateTransaction makes of one input
InputSpendable(U, r, senderID) ==
    /\ RefKey(r) \in DOMAIN U
    /\ ~U[RefKey(r)].Spent
    /\ U[RefKey(r)].Owner = senderID

\* whether ValidateTransaction panics instead of returning
ValidatePanics(t) ==
    VerifySignature(t.PubKey,
        MarshalPayload(t.SenderID, t.ReceiverID, t.Amount, t.Timestamp, t.Note),
        t.Signature).panic

\* ValidateTransaction: TRUE when it returns nil
ValidateTransaction(U, t) ==
    LET payload == MarshalPayload(t.SenderID, t.ReceiverID, t.Amount, t.Timestamp, t.Note)
        v == VerifySignature(t.PubKey, payload, t.Signature)
        expected == WalletIDFromPub(t.PubKey)
    IN  /\ ~v.panic
        /\ ~v.err
        /\ v.ok
        /\ ~expected.err
        /\ expected.id = t.SenderID
        /\ \A i \in DOMAIN t.Inputs : InputSpendable(U, t.Inputs[i], t.SenderID)
        /\ InputTotal(U, t) = OutputTotal(t)

---------------------------------------------------------------------------
\* Blockchain: hashing.

\* SHA-256 as a collision-free constructor over its input
Sha256(x) == <<"sha256", x>>
\* the empty string, as a hash value
EmptyHash == <<>>
\* the genesis block's PreviousHash, "0"
ZeroHash == <<"0">>

\* Go's string(n) of an integer: the UTF-8 of code point n, U+FFFD when n is
\* no valid code point
RuneString(n) ==
    IF n < 0 \/ n > MaxRune \/ (n >= SurrogateMin /\ n <= SurrogateMax)
    THEN RuneError ELSE n

Range(f) == {f[i] : i \in DOMAIN f}

\* sort.Strings(ids) then strings.Join(ids, ","): the multiset of the ids
SortStrings(ids) ==
    [id \in Range(ids) |-> Cardinality({i \in DOMAIN ids : ids[i] = id})]

TxIDs(txs) == [i \in DOMAIN txs |-> txs[i].ID]

\* computeMerkle: pairwise hashing of the ids' hashes, in list order
RECURSIVE MerkleLevel(_)
MerkleLevel(hashes) ==
    IF Len(hashes) = 0 THEN <<>>
    ELSE IF Len(hashes) = 1 THEN <<hashes[1]>>
    ELSE <<Sha256(<<hashes[1], hashes[2]>>)>> \o MerkleLevel(SubSeq(hashes, 3, Len(hashes)))

RECURSIVE MerkleReduce(_)
MerkleReduce(hashes) ==
    IF Len(hashes) > 1 THEN MerkleReduce(MerkleLevel(hashes)) ELSE hashes[1]

computeMerkle(txs) ==
    IF Len(txs) = 0 THEN EmptyHash
    ELSE MerkleReduce([i \in DOMAIN txs |-> Sha256(txs[i].ID)])

\* a block hash over the transaction ids in list order, without the sort
hashBlock_Unsorted(b) ==
    Sha256(<<RuneString(b.Index), RuneString(b.Timestamp),
             TxIDs(b.Transactions), b.PreviousHash, RuneString(b.Nonce)>>)

\* hashBlock: sha256 of index|timestamp|sorted ids|previous hash|nonce
hashBlock(b) ==
    Sha256(<<RuneString(b.Index), RuneString(b.Timestamp),
             SortStrings(TxIDs(b.Transactions)), b.PreviousHash,
             RuneString(b.Nonce)>>)

\* the values the leading hex digits of a digest range over (stands for 16^5)
DifficultyClasses == 3

\* the leading digits of a digest, a fixed function of the hashed bytes
LeadingDigits(h) ==
    (h[2][1] + h[2][5] + Cardinality(DOMAIN h[2][3])) % DifficultyClasses

\* strings.HasPrefix(h, bc.DifficultyPref)
HasDifficultyPrefix(h) == LeadingDigits(h) = 0

---------------------------------------------------------------------------
\* Blockchain: the ledger.

\* a genesis block whose hash was never computed
Genesis_Unhashed ==
    [Index |-> 0, Timestamp |-> Unix(0), Transactions |-> <<>>,
     PreviousHash |-> ZeroHash, Nonce |-> 0, Hash |-> EmptyHash,
     MerkleRoot |-> computeMerkle(<<>>)]

Genesis ==
    LET g == [Index |-> 0, Timestamp |-> Unix(0), Transactions |-> <<>>,
              PreviousHash |-> ZeroHash, Nonce |-> 0, Hash |-> EmptyHash,
              MerkleRoot |-> computeMerkle(<<>>)]
    IN  [g EXCEPT !.Hash = hashBlock(g)]

\* the coinbase transaction Mine builds (the note without the block number,
\* which nothing reads)
CoinbaseTx(index, timestamp, minerWalletID) ==
    LET id == TxID("coinbase", "", index, timestamp)
    IN  [ID |-> id, SenderID |-> Coinbase, ReceiverID |-> minerWalletID,
         Amount |-> MiningReward, Note |-> "Mining reward",
         Timestamp |-> timestamp, PubKey |-> NotHex("SYSTEM"),
         Signature |-> <<"nosig", "COINBASE", <<>>>>,
         Inputs |-> <<>>,
         Outputs |-> <<MkUTXO(minerWalletID, MiningReward, id, 0)>>,
         Type |-> "mining_reward"]

\* a nonce search that never tries nonceStart itself
RECURSIVE Search_OffByOne(_, _, _)
Search_OffByOne(b, nonce, i) ==
    IF i >= MaxIterations THEN b
    ELSE LET b1 == [b EXCEPT !.Nonce = nonce + 1]
             h == hashBlock(b1)
         IN  IF HasDifficultyPrefix(h) THEN [b1 EXCEPT !.Hash = h]
             ELSE Search_OffByOne(b1, nonce + 1, i + 1)

\* the nonce search: at most MaxIterations hash evaluations
RECURSIVE Search(_, _, _)
Search(b, nonce, i) ==
    IF i >= MaxIterations THEN b
    ELSE LET b1 == [b EXCEPT !.Nonce = nonce]
             h == hashBlock(b1)
         IN  IF HasDifficultyPrefix(h) THEN [b1 EXCEPT !.Hash = h]
             ELSE Search(b1, nonce + 1, i + 1)

\* a block with the reward transaction after the pool's transactions
MineBlock_RewardLast(C, P, t, nonceStart, minerWalletID) ==
    LET index == Len(C)
        txs == P \o <<CoinbaseTx(index, Unix(t), minerWalletID)>>
        b0 == [Index |-> index, Timestamp |-> Unix(t), Transactions |-> txs,
               PreviousHash |-> C[Len(C)].Hash, Nonce |-> 0, Hash |-> EmptyHash,
               MerkleRoot |-> computeMerkle(txs)]
        b == Search(b0, nonceStart, 0)
    IN  IF b.Hash = EmptyHash THEN [b EXCEPT !.Hash = hashBlock(b)] ELSE b

\* a block linked to the genesis block instead of the chain's last block
MineBlock_StaleLink(C, P, t, nonceStart, minerWalletID) ==
    LET index == Len(C)
        txs == <<CoinbaseTx(index, Unix(t), minerWalletID)>> \o P
        b0 == [Index |-> index, Timestamp |-> Unix(t), Transactions |-> txs,
               PreviousHash |-> C[1].Hash, Nonce |-> 0, Hash |-> EmptyHash,
               MerkleRoot |-> computeMerkle(txs)]
        b == Search(b0, nonceStart, 0)
    IN  IF b.Hash = EmptyHash THEN [b EXCEPT !.Hash = hashBlock(b)] ELSE b

\* the block Mine builds on chain C from pending pool P at clock reading t
MineBlock(C, P, t, nonceStart, minerWalletID) ==
    LET index == Len(C)
        txs == <<CoinbaseTx(index, Unix(t), minerWalletID)>> \o P
        b0 == [Index |-> index, Timestamp |-> Unix(t), Transactions |-> txs,
               PreviousHash |-> C[Len(C)].Hash, Nonce |-> 0, Hash |-> EmptyHash,
               MerkleRoot |-> computeMerkle(txs)]
        b == Search(b0, nonceStart, 0)
    IN  IF b.Hash = EmptyHash THEN [b EXCEPT !.Hash = hashBlock(b)] ELSE b

\* bc.UTXOs[key] = u
MapPut(U, key, u) ==
    [k \in DOMAIN U \cup {key} |-> IF k = key THEN u ELSE U[k]]

\* the commit loop's first inner loop: mark the inputs that exist as spent
RECURSIVE MarkInputs(_, _)
MarkInputs(U, ins) ==
    IF ins = <<>> THEN U
    ELSE LET key == RefKey(Head(ins))
         IN  MarkInputs(IF key \in DOMAIN U
                        THEN [U EXCEPT ![key].Spent = TRUE] ELSE U,
                        Tail(ins))

\* the commit loop's second inner loop: store every output under txid:idx
RECURSIVE PutOutputs(_, _, _, _)
PutOutputs(U, txid, outs, idx) ==
    IF outs = <<>> THEN U
    ELSE LET key == UTXOKey(txid, idx)
         IN  PutOutputs(MapPut(U, key, [Head(outs) EXCEPT !.ID = key]),
                        txid, Tail(outs), idx + 1)

\* the commit loop over the block's transactions, in list order
RECURSIVE Commit(_, _)
Commit(U, txs) ==
    IF txs = <<>> THEN U
    ELSE Commit(PutOutputs(MarkInputs(U, Head(txs).Inputs),
                           Head(txs).ID, Head(txs).Outputs, 0),
                Tail(txs))

\* GetBalance: the loop over the map, adding the unspent amounts of walletID
RECURSIVE SumOver(_, _, _)
SumOver(U, keys, walletID) ==
    IF keys = {} THEN 0
    ELSE LET k == CHOOSE x \in keys : TRUE
         IN  (IF U[k].Owner = walletID /\ ~U[k].Spent THEN U[k].Amount ELSE 0)
             + SumOver(U, keys \ {k}, walletID)

\* a GetBalance that forgets the Spent flag
RECURSIVE SumOwned(_, _, _)
SumOwned(U, keys, walletID) ==
    IF keys = {} THEN 0
    ELSE LET k == CHOOSE x \in keys : TRUE
         IN  (IF U[k].Owner = walletID THEN U[k].Amount ELSE 0)
             + SumOwned(U, keys \ {k}, walletID)

GetBalance_CountsSpent(U, walletID) == SumOwned(U, DOMAIN U, walletID)

GetBalance(U, walletID) == SumOver(U, DOMAIN U, walletID)

\* the UTXO CreateFaucetUTXO stores
FaucetUTXO(walletID, t) ==
    LET origin == TxID("faucet", walletID, 0, Unix(t))
    IN  [ID |-> UTXOKey(origin, 0), Owner |-> walletID, Amount |-> FaucetAmount,
         OriginTx |-> origin, Index |-> 0, Spent |-> FALSE]

---------------------------------------------------------------------------
\* The inputs of the requests.

AccountIds == Wallets \cup {UnknownWallet}
SendAmounts == {600, 1000}
SendNotes == {"n"}
NonceStarts == {0}
Miners == {"A"}
\* a private_key field that is no hex string of an Ed25519 key
BadRequestKey == NotHex("zz")

NoTime == -1

\* NewZakatService: no ticker yet, the loop not started, Stop not called
NotStarted ==
    [ticker |-> "none", tick |-> FALSE, loop |-> "none", stop |-> "idle"]

\* after ZakatService.Start: the ticker runs and the loop waits in its select
Started ==
    [ticker |-> "running", tick |-> FALSE, loop |-> "running", stop |-> "idle"]

\* the zero Block
NoBlock ==
    [Index |-> 0, Timestamp |-> 0, Transactions |-> <<>>,
     PreviousHash |-> EmptyHash, Nonce |-> 0, Hash |-> EmptyHash,
     MerkleRoot |-> EmptyHash]

\* Blockchain.mu not held by Mine
Unlocked == [pc |-> "free", b |-> NoBlock, i |-> 0]

\* no read by a handler that takes no lock is in progress
NoRead == [op |-> "none", held |-> FALSE, partial |-> FALSE, torn |-> FALSE]

\* the scheduler goroutine at rest: pc, the wallets still to visit, and the
\* locals now, w, balance, zakatAmount, tx of ProcessMonthlyZakat
ZakatIdle ==
    [pc |-> "idle", todo |-> {}, now |-> 0, w |-> "", balance |-> 0,
     amount |-> 0, tx |-> NoTx]

---------------------------------------------------------------------------
\* Initial state: NewBlockchain, NewStore, NewZakatService.

Init ==
    /\ wallets = {}
    /\ Chain = <<Genesis>>
    /\ Pending = <<>>
    /\ UTXOs = <<>>
    /\ now = 0
    /\ faucets = 0
    /\ sends = 0
    /\ cycles = 0
    /\ pc = [p \in Senders |-> "idle"]
    /\ tx = [p \in Senders |-> NoTx]
    /\ sel = [p \in Senders |-> <<>>]
    /\ zs = ZakatIdle
    /\ lastProcessed = [w \in Wallets |-> NoTime]
    /\ life = Started
    /\ mu = Unlocked
    /\ seen = NoRead

---------------------------------------------------------------------------
\* Steps.

\* the wall clock advances, up to a bound
TickUpTo(max) ==
    /\ now < max
    /\ now' = now + 1
    /\ UNCHANGED <<wallets, ledger, handlers, scheduler, counters, control>>

\* the wall clock advances
Tick == TickUpTo(MaxTime)

\* handleCreateWallet: Store.CreateFromPub, then Blockchain.CreateFaucetUTXO
CreateWallet(w) ==
    /\ faucets < MaxFaucet
    /\ wallets' = wallets \cup {w}
    /\ LET u == FaucetUTXO(w, now) IN UTXOs' = MapPut(UTXOs, u.ID, u)
    /\ faucets' = faucets + 1
    /\ UNCHANGED <<Chain, Pending, now, handlers, scheduler, sends, cycles, control>>

\* handleSend up to the return of CreateTransaction
SendBuildStep(p, sender, receiver, amount, note, priv) ==
    /\ pc[p] = "idle"
    /\ sends + 2 * cycles + 1 <= MaxRequests
    /\ IF sender \notin wallets
       THEN UNCHANGED <<handlers, sends>>
       ELSE \E r \in CreateTransaction(wallets, UTXOs, now, sender, receiver,
                                        amount, note, PubKeyOf(sender), priv) :
                IF r.err
                THEN UNCHANGED <<handlers, sends>>
                ELSE /\ pc' = [pc EXCEPT ![p] = "built"]
                     /\ tx' = [tx EXCEPT ![p] = r.tx]
                     /\ sel' = [sel EXCEPT ![p] = r.selected]
                     /\ sends' = sends + 1
    /\ UNCHANGED <<wallets, ledger, now, scheduler, faucets, cycles, control>>

SendBuild(p) ==
    \E sender \in AccountIds, receiver \in AccountIds, amount \in SendAmounts,
       note \in SendNotes, priv \in PrivKeys \cup {BadRequestKey} :
        /\ receiver # sender
        /\ priv \in {PrivKeyOf(sender), BadRequestKey}
        /\ SendBuildStep(p, sender, receiver, amount, note, priv)

\* a handleSend that adds the transaction to the pool before validating it
SendValidate_AppendsFirst(p) ==
    /\ pc[p] = "built"
    /\ Len(Pending) < MaxPending
    /\ Pending' = Append(Pending, tx[p])
    /\ pc' = [pc EXCEPT ![p] = "idle"]
    /\ tx' = [tx EXCEPT ![p] = NoTx]
    /\ sel' = [sel EXCEPT ![p] = <<>>]
    /\ UNCHANGED <<wallets, Chain, UTXOs, now, scheduler, counters, control>>

\* handleSend: ValidateTransaction, and the 400 response when it fails
SendValidate(p) ==
    /\ pc[p] = "built"
    /\ IF ValidateTransaction(UTXOs, tx[p])
       THEN /\ pc' = [pc EXCEPT ![p] = "validated"]
            /\ UNCHANGED <<tx, sel>>
       ELSE /\ pc' = [pc EXCEPT ![p] = "idle"]
            /\ tx' = [tx EXCEPT ![p] = NoTx]
            /\ sel' = [sel EXCEPT ![p] = <<>>]
    /\ UNCHANGED <<wallets, ledger, now, scheduler, counters, control>>

\* handleSend: AddPending
SendAppend(p) ==
    /\ pc[p] = "validated"
    /\ Len(Pending) < MaxPending
    /\ Pending' = Append(Pending, tx[p])
    /\ pc' = [pc EXCEPT ![p] = "idle"]
    /\ tx' = [tx EXCEPT ![p] = NoTx]
    /\ sel' = [sel EXCEPT ![p] = <<>>]
    /\ UNCHANGED <<wallets, Chain, UTXOs, now, scheduler, counters, control>>

\* Blockchain.Mine: build, search, commit, clear the pool, all under the lock
MineStep(nonceStart, minerWalletID) ==
    /\ Len(Chain) <= MaxBlocks
    /\ LET b == MineBlock(Chain, Pending, now, nonceStart, minerWalletID)
       IN  /\ Chain' = Append(Chain, b)
           /\ UTXOs' = Commit(UTXOs, b.Transactions)
    /\ Pending' = <<>>

\* handleMine: the miner's wallet must exist
Mine ==
    /\ \E miner \in wallets \cap Miners, nonceStart \in NonceStarts :
        MineStep(nonceStart, miner)
    /\ UNCHANGED <<wallets, now, handlers, scheduler, counters, control>>

\* the entry of ProcessMonthlyZakat: it reads the wallets and the clock
ZakatEnter ==
    /\ zs.pc = "idle"
    /\ cycles' = cycles + 1
    /\ zs' = [ZakatIdle EXCEPT !.pc = "loop", !.todo = wallets, !.now = now]
    /\ UNCHANGED <<wallets, ledger, now, handlers, lastProcessed, faucets, sends, mu, seen>>

\* the ticker fires and the loop calls ProcessMonthlyZakat
ZakatStart ==
    /\ cycles < MaxCycles
    /\ sends + 2 * cycles + 2 <= MaxRequests
    /\ ZakatEnter
    /\ UNCHANGED life

\* whether the zakat interval has not yet passed since the last deduction
WithinInterval(last, at) ==
    last # NoTime /\ (at - last) * DaysPerTick < ZakatIntervalDays

\* uint64(float64(balance) * ZakatRate)
ZakatAmount(balance) == (balance * ZakatRatePerMille) \div 1000

\* a loop head without the interval check
ZakatVisit_NoInterval ==
    /\ zs.pc = "loop"
    /\ zs.todo # {}
    /\ \E w \in zs.todo :
        LET balance == GetBalance(UTXOs, w)
            skip == \/ w \in {ZakatPool, Coinbase}
                    \/ balance < ZakatNisab
                    \/ ZakatAmount(balance) = 0
        IN  zs' = IF skip
                  THEN [zs EXCEPT !.todo = @ \ {w}]
                  ELSE [zs EXCEPT !.todo = @ \ {w}, !.pc = "build", !.w = w,
                                  !.balance = balance,
                                  !.amount = ZakatAmount(balance)]
    /\ UNCHANGED <<wallets, ledger, now, handlers, lastProcessed, counters, control>>

\* a loop head without the Nisab check
ZakatVisit_NoNisab ==
    /\ zs.pc = "loop"
    /\ zs.todo # {}
    /\ \E w \in zs.todo :
        LET balance == GetBalance(UTXOs, w)
            skip == \/ w \in {ZakatPool, Coinbase}
                    \/ WithinInterval(lastProcessed[w], zs.now)
                    \/ ZakatAmount(balance) = 0
        IN  zs' = IF skip
                  THEN [zs EXCEPT !.todo = @ \ {w}]
                  ELSE [zs EXCEPT !.todo = @ \ {w}, !.pc = "build", !.w = w,
                                  !.balance = balance,
                                  !.amount = ZakatAmount(balance)]
    /\ UNCHANGED <<wallets, ledger, now, handlers, lastProcessed, counters, control>>

\* the head of one loop iteration: the interval check, GetBalance, the Nisab
\* check and the amount; the wallets come in map order
ZakatVisit ==
    /\ zs.pc = "loop"
    /\ zs.todo # {}
    /\ \E w \in zs.todo :
        LET balance == GetBalance(UTXOs, w)
            skip == \/ w \in {ZakatPool, Coinbase}
                    \/ WithinInterval(lastProcessed[w], zs.now)
                    \/ balance < ZakatNisab
                    \/ ZakatAmount(balance) = 0
        IN  zs' = IF skip
                  THEN [zs EXCEPT !.todo = @ \ {w}]
                  ELSE [zs EXCEPT !.todo = @ \ {w}, !.pc = "build", !.w = w,
                                  !.balance = balance,
                                  !.amount = ZakatAmount(balance)]
    /\ UNCHANGED <<wallets, ledger, now, handlers, lastProcessed, counters, control>>

\* a cycle that ends at the first CreateZakatTransaction error
ZakatBuild_AbortsCycle ==
    /\ zs.pc = "build"
    /\ \E r \in CreateZakatTransaction(UTXOs, now, zs.w, zs.amount) :
        zs' = IF r.err
              THEN ZakatIdle
              ELSE [zs EXCEPT !.pc = "append", !.tx = r.tx]
    /\ UNCHANGED <<wallets, ledger, now, handlers, lastProcessed, counters, control>>

\* CreateZakatTransaction; on an error the loop continues with the next wallet
ZakatBuild ==
    /\ zs.pc = "build"
    /\ \E r \in CreateZakatTransaction(UTXOs, now, zs.w, zs.amount) :
        zs' = IF r.err
              THEN [zs EXCEPT !.pc = "loop", !.w = "", !.balance = 0, !.amount = 0]
              ELSE [zs EXCEPT !.pc = "append", !.tx = r.tx]
    /\ UNCHANGED <<wallets, ledger, now, handlers, lastProcessed, counters, control>>

\* AddPending, then lastProcessed[w] = now
ZakatAppend ==
    /\ zs.pc = "append"
    /\ Len(Pending) < MaxPending
    /\ Pending' = Append(Pending, zs.tx)
    /\ lastProcessed' = [lastProcessed EXCEPT ![zs.w] = zs.now]
    /\ zs' = [zs EXCEPT !.pc = "loop", !.w = "", !.balance = 0, !.amount = 0,
                        !.tx = NoTx]
    /\ UNCHANGED <<wallets, Chain, UTXOs, now, handlers, counters, control>>

\* a cycle that ends after its loop without the seal
ZakatCheck_SkipsSeal ==
    /\ zs.pc = "loop"
    /\ zs.todo = {}
    /\ zs' = ZakatIdle
    /\ UNCHANGED <<wallets, ledger, now, handlers, lastProcessed, counters, control>>

\* after the loop: len(GetPending()) > 0 decides whether to mine
ZakatCheck ==
    /\ zs.pc = "loop"
    /\ zs.todo = {}
    /\ zs' = IF Len(Pending) > 0 THEN [zs EXCEPT !.pc = "mine"] ELSE ZakatIdle
    /\ UNCHANGED <<wallets, ledger, now, handlers, lastProcessed, counters, control>>

\* Mine(0, "ZAKAT_POOL")
ZakatMine ==
    /\ zs.pc = "mine"
    /\ MineStep(0, ZakatPool)
    /\ zs' = ZakatIdle
    /\ UNCHANGED <<wallets, now, handlers, lastProcessed, counters, control>>

Next ==
    \/ Tick
    \/ \E w \in Wallets : CreateWallet(w)
    \/ \E p \in Senders : SendBuild(p)
    \/ \E p \in Senders : SendValidate(p)
    \/ \E p \in Senders : SendAppend(p)
    \/ Mine
    \/ ZakatStart
    \/ ZakatVisit
    \/ ZakatBuild
    \/ ZakatAppend
    \/ ZakatCheck
    \/ ZakatMine

Spec == Init /\ [][Next]_vars

---------------------------------------------------------------------------
\* The transaction service on its own: SelectUTXOs, CreateTransaction and
\* ValidateTransaction applied to a family of UTXO sets, and to transactions
\* that were changed after CreateTransaction signed them.

\* transfer outputs in the UTXO sets the service is applied to
MaxUTXOs == 3
\* the amounts asked for
PureAmounts == {0, 65, 100}
\* the notes signed, and the notes a signed note may be changed to
PureNotes == {"n", "<FF>"}
AlteredNotes == {"n", "<FF>", "<FE>"}
\* the handler the service is driven through
PureHandler == 1

\* output 0 of the transfers built at the clock readings 0..MaxUTXOs-1
PureKeys == {UTXOKey(TxID("tx", "", 0, t), 0) : t \in 0..MaxUTXOs - 1}
\* a key no UTXO is stored under
MissingKey == UTXOKey(TxID("tx", "", 0, MaxUTXOs), 1)

\* what a transfer output may hold
PureEntries ==
    {[Owner |-> "A", Amount |-> 10, Spent |-> FALSE],
     [Owner |-> "A", Amount |-> 30, Spent |-> FALSE],
     [Owner |-> "A", Amount |-> 70, Spent |-> FALSE],
     [Owner |-> "A", Amount |-> 70, Spent |-> TRUE],
     [Owner |-> "B", Amount |-> 30, Spent |-> FALSE]}

\* both wallets' faucet grants, spent
SpentFaucets ==
    {[FaucetUTXO(w, 0) EXCEPT !.Spent = TRUE] : w \in Wallets}

\* the UTXO map holding the spent faucet grants and the transfer outputs f
PureUTXOMap(f) ==
    LET fk == {u.ID : u \in SpentFaucets}
    IN  [k \in fk \cup DOMAIN f |->
            IF k \in fk THEN CHOOSE u \in SpentFaucets : u.ID = k
            ELSE [ID |-> k, Owner |-> f[k].Owner, Amount |-> f[k].Amount,
                  OriginTx |-> k[1], Index |-> k[2], Spent |-> f[k].Spent]]

InitPure ==
    /\ wallets = Wallets
    /\ Chain = <<Genesis>>
    /\ Pending = <<>>
    /\ \E K \in SUBSET PureKeys : \E f \in [K -> PureEntries] :
        UTXOs = PureUTXOMap(f)
    /\ now = MaxUTXOs
    /\ faucets = Cardinality(Wallets)
    /\ sends = 0
    /\ cycles = 0
    /\ pc = [p \in Senders |-> "idle"]
    /\ tx = [p \in Senders |-> NoTx]
    /\ sel = [p \in Senders |-> <<>>]
    /\ zs = ZakatIdle
    /\ lastProcessed = [w \in Wallets |-> NoTime]
    /\ life = Started
    /\ mu = Unlocked
    /\ seen = NoRead

\* CreateTransaction for a registered sender with the sender's own key
PureBuild ==
    \E sender \in Wallets, receiver \in AccountIds, amount \in PureAmounts,
       note \in PureNotes :
        /\ receiver # sender
        /\ SendBuildStep(PureHandler, sender, receiver, amount, note, PrivKeyOf(sender))

\* a signature by the other wallet's key over the same payload
ForgedSignature(t) ==
    {<<"sig", w, t.Signature[3]>> : w \in Wallets \ {t.Signature[2]}}

\* the transactions that differ from t in one field
Alterations(t) ==
    {[t EXCEPT !.SenderID = s] : s \in AccountIds \ {t.SenderID}}
    \cup {[t EXCEPT !.ReceiverID = r] : r \in AccountIds \ {t.ReceiverID}}
    \cup {[t EXCEPT !.Amount = a] : a \in PureAmounts \ {t.Amount}}
    \cup {[t EXCEPT !.Timestamp = @ + 1]}
    \cup {[t EXCEPT !.Note = n] : n \in AlteredNotes \ {t.Note}}
    \cup {[t EXCEPT !.PubKey = k] :
            k \in (PubKeys \cup {ShortHex("00"), NotHex("zz")}) \ {t.PubKey}}
    \cup {[t EXCEPT !.Signature = g] : g \in ForgedSignature(t)}
    \cup {[t EXCEPT !.Inputs = <<[TxID |-> k[1], Index |-> k[2]]>>] :
            k \in (PureKeys \cup {MissingKey}) \ InputKeys(t)}
    \cup {[t EXCEPT !.Outputs[1].Amount = @ + 1]}
    \cup {[t EXCEPT !.Outputs[1].Owner = o] :
            o \in AccountIds \ {t.Outputs[1].Owner}}
    \cup (IF Len(t.Outputs) = 2
          THEN {[t EXCEPT !.Outputs[1].Amount = @ + 1, !.Outputs[2].Amount = @ - 1]}
          ELSE {})

\* the holder of a built transaction changes one field before validation
Tamper ==
    /\ pc[PureHandler] = "built"
    /\ \E t \in Alterations(tx[PureHandler]) :
        tx' = [tx EXCEPT ![PureHandler] = t]
    /\ pc' = [pc EXCEPT ![PureHandler] = "altered"]
    /\ UNCHANGED <<wallets, ledger, now, sel, scheduler, counters, control>>

\* ValidateTransaction applied to the changed transaction
ValidateAltered ==
    /\ pc[PureHandler] = "altered"
    /\ IF ValidateTransaction(UTXOs, tx[PureHandler])
       THEN /\ pc' = [pc EXCEPT ![PureHandler] = "validated"]
            /\ UNCHANGED <<tx, sel>>
       ELSE /\ pc' = [pc EXCEPT ![PureHandler] = "idle"]
            /\ tx' = [tx EXCEPT ![PureHandler] = NoTx]
            /\ sel' = [sel EXCEPT ![PureHandler] = <<>>]
    /\ UNCHANGED <<wallets, ledger, now, scheduler, counters, control>>

NextPure ==
    \/ PureBuild
    \/ Tamper
    \/ SendValidate(PureHandler)
    \/ ValidateAltered

SpecPure == InitPure /\ [][NextPure]_vars

---------------------------------------------------------------------------
\* Properties.

\* the transactions in sealed blocks, by place: <<block, position>>
Sealed == {<<b, i>> : b \in 1..Len(Chain), i \in 1..MaxPending + 1} \cap
          {pl \in (1..Len(Chain)) \X (1..MaxPending + 1) :
              pl[2] <= Len(Chain[pl[1]].Transactions)}
SealedTx(pl) == Chain[pl[1]].Transactions[pl[2]]
IsDebit(t) == t.Type \in {"transfer", "zakat_deduction"}

\* C1: no (originTransactionId, outputIndex) pair is referenced as an input
\* by two different transactions of sealed blocks, in the same block or in
\* different blocks.
C1_NoDoubleSpend ==
    \A p1, p2 \in Sealed :
        p1 # p2 => InputKeys(SealedTx(p1)) \cap InputKeys(SealedTx(p2)) = {}

\* C2: every transfer or levy transaction of a sealed block has
\* sum(output amounts) = sum(amounts of the UTXOs its inputs reference).
C2_Conservation ==
    \A pl \in Sealed :
        IsDebit(SealedTx(pl)) =>
            OutputTotal(SealedTx(pl)) = InputTotal(UTXOs, SealedTx(pl))

\* the transactions a step seals: those of the block it appends
NewlySealed == IF Len(Chain') > Len(Chain) THEN Range(Chain'[Len(Chain')].Transactions)
               ELSE {}

\* C3: once a UTXO is marked spent, no transaction sealed afterwards
\* references it and SelectUTXOs never returns it.
C3_SpentIsFinal ==
    [][ /\ \A t \in NewlySealed : \A k \in InputKeys(t) :
              k \in DOMAIN UTXOs => ~UTXOs[k].Spent
        /\ \A w \in Wallets, a \in SendAmounts : \A r \in SelectUTXOs(UTXOs, w, a) :
              \A i \in DOMAIN r.selected : ~r.selected[i].Spent ]_vars

\* what a sealing pass that re-checks the inputs keeps of pool P, in pool
\* order: a transaction is dropped when one of its inputs is spent in U or
\* was spent by a transaction kept before it
RECURSIVE FirstWriterWins(_, _)
FirstWriterWins(P, spent) ==
    IF P = <<>> THEN <<>>
    ELSE IF InputKeys(Head(P)) \cap spent = {}
         THEN <<Head(P)>> \o FirstWriterWins(Tail(P), spent \cup InputKeys(Head(P)))
         ELSE FirstWriterWins(Tail(P), spent)

SpentKeys(U) == {k \in DOMAIN U : U[k].Spent}

\* C4: seal takes the pending transactions in pool order and drops every one
\* that has an input already spent earlier in the same pass (or before it),
\* so of several pending spenders of one UTXO only the first is sealed.
C4_SealRechecksInputs ==
    [][ Len(Chain') > Len(Chain) =>
          Tail(Chain'[Len(Chain')].Transactions)
              = FirstWriterWins(Pending, SpentKeys(UTXOs)) ]_vars

\* the accounts a balance is asked for
BalanceAccounts == AccountIds \cup {ZakatPool}

\* the unspent UTXOs of an account as a bag: each key as often as its amount
UnspentBag(U, w) ==
    [k \in {x \in DOMAIN U : U[x].Owner = w /\ U[x].Spent = FALSE /\ U[x].Amount > 0}
        |-> U[k].Amount]

\* C5: in every reachable state GetBalance(w) is the sum of the amounts of
\* the unspent UTXOs w owns.
C5_BalanceIsUnspentSum ==
    \A w \in BalanceAccounts :
        GetBalance(UTXOs, w) = BagCardinality(UnspentBag(UTXOs, w))

\* C5 witness: after a seal, an account with a positive balance that also
\* owns a spent UTXO.
C5_Witness ==
    /\ Len(Chain) > 1
    /\ \E k \in DOMAIN UTXOs :
        UTXOs[k].Spent /\ GetBalance(UTXOs, UTXOs[k].Owner) > 0

\* C10: building and validating never change the chain, the UTXO set or the
\* pool; a request's transaction enters the pool exactly when its build and
\* its validation both succeeded, and a failed request leaves all three as
\* they were.
C10_AllOrNothing ==
    [][ /\ \A p \in Senders :
            /\ (pc[p] = "idle" /\ pc'[p] # "idle") =>
                   /\ UNCHANGED ledger
                   /\ pc'[p] = "built"
                   /\ \E r \in CreateTransaction(wallets, UTXOs, now, tx'[p].SenderID,
                                                 tx'[p].ReceiverID, tx'[p].Amount,
                                                 tx'[p].Note, tx'[p].PubKey,
                                                 PrivKeyOf(tx'[p].Signature[2])) :
                        ~r.err /\ r.tx = tx'[p]
            /\ (pc[p] = "built" /\ pc'[p] # "built") =>
                   /\ UNCHANGED ledger
                   /\ pc'[p] = (IF ValidateTransaction(UTXOs, tx[p])
                                THEN "validated" ELSE "idle")
            /\ (pc[p] = "validated" /\ pc'[p] # "validated") =>
                   /\ Pending' = Append(Pending, tx[p])
                   /\ UNCHANGED <<Chain, UTXOs>>
        /\ (zs.pc = "build" /\ zs'.pc # "build") => UNCHANGED ledger
        /\ (Len(Pending') > Len(Pending)) =>
               \/ \E p \in Senders : pc[p] = "validated" /\ pc'[p] = "idle"
               \/ zs.pc = "append" /\ zs'.pc = "loop" ]_vars

\* C10 witness: a request is about to fail validation (an input of its
\* transaction is spent by now) while the pool holds a submitted transfer.
C10_Witness ==
    /\ Len(Pending) > 0
    /\ \E p \in Senders : pc[p] = "built" /\ ~ValidateTransaction(UTXOs, tx[p])

\* what C6 asks of one result r of SelectUTXOs(w, a) in UTXO state U
SelectionOK(U, w, a, r) ==
    LET n == Len(r.selected)
        chosen == {r.selected[i].ID : i \in 1..n}
        unspent == BagCardinality(UnspentBag(U, w))
    IN  IF r.err THEN unspent < a
        ELSE /\ unspent >= a
             /\ \A i \in 1..n :
                    /\ r.selected[i].ID \in DOMAIN U
                    /\ U[r.selected[i].ID] = r.selected[i]
                    /\ r.selected[i].Owner = w
                    /\ r.selected[i].Spent = FALSE
             /\ Cardinality(chosen) = n
             /\ r.total = SumSeq(Amounts(r.selected))
             /\ r.total >= a
             /\ n > 0 => r.total - r.selected[n].Amount < a
             /\ \A i, j \in 1..n : i < j => r.selected[i].Amount >= r.selected[j].Amount
             /\ \A k \in Available(U, w) \ chosen : \A i \in 1..n :
                    U[k].Amount <= r.selected[i].Amount

\* C6: SelectUTXOs returns only unspent UTXOs of the account, the shortest
\* prefix of them in descending order of amount whose running total reaches
\* the amount, with total the sum of the selected amounts; it fails exactly
\* when the account's unspent UTXOs sum to less than the amount.
C6_GreedySelection ==
    \A w \in Wallets, a \in PureAmounts :
        \A r \in SelectUTXOs(UTXOs, w, a) : SelectionOK(UTXOs, w, a, r)

\* C6 witness: unspent outputs 70, 30, 10 and amount 65 selected {70}.
C6_Witness ==
    /\ pc[PureHandler] = "built"
    /\ tx[PureHandler].Amount = 65
    /\ Amounts(sel[PureHandler]) = <<70>>
    /\ {UTXOs[k].Amount : k \in Available(UTXOs, tx[PureHandler].SenderID)} = {10, 30, 70}
    /\ Cardinality(Available(UTXOs, tx[PureHandler].SenderID)) = 3

\* C7: in one UTXO state, SelectUTXOs for an account and an amount has one
\* possible result, also when several UTXOs of the account have equal amounts.
C7_SelectionDeterministic ==
    \A w \in Wallets, a \in SendAmounts :
        Cardinality(SelectUTXOs(UTXOs, w, a)) <= 1

\* C8: a built transaction has type transfer, its inputs are the references
\* of the UTXOs selected for the sender, output 0 pays the amount to the
\* receiver, and there is a change output of total - amount for the sender
\* exactly when total > amount.
C8_TransferShape ==
    \A p \in Senders :
        pc[p] = "built" =>
            LET t == tx[p]
                total == SumSeq(Amounts(sel[p]))
            IN  /\ t.Type = "transfer"
                /\ \E r \in SelectUTXOs(UTXOs, t.SenderID, t.Amount) :
                        ~r.err /\ r.selected = sel[p]
                /\ Len(t.Inputs) = Len(sel[p])
                /\ \A i \in DOMAIN t.Inputs :
                        t.Inputs[i] = [TxID |-> sel[p][i].OriginTx,
                                       Index |-> sel[p][i].Index]
                /\ Len(t.Outputs) \in {1, 2}
                /\ t.Outputs[1].Owner = t.ReceiverID
                /\ t.Outputs[1].Amount = t.Amount
                /\ t.Outputs[1].Index = 0
                /\ Len(t.Outputs) = 2 <=> total > t.Amount
                /\ Len(t.Outputs) = 2 =>
                        /\ t.Outputs[2].Owner = t.SenderID
                        /\ t.Outputs[2].Amount = total - t.Amount
                        /\ t.Outputs[2].Index = 1

\* C8 witness: selected {70} and amount 65 built outputs receiver 65 and
\* sender 5.
C8_Witness ==
    \E p \in Senders :
        /\ pc[p] = "built"
        /\ Amounts(sel[p]) = <<70>>
        /\ Amounts(tx[p].Outputs) = <<65, 5>>
        /\ tx[p].Outputs[1].Owner = tx[p].ReceiverID
        /\ tx[p].Outputs[2].Owner = tx[p].SenderID

\* the conditions C9 lists for a transaction t in UTXO state U
C9_Conditions(U, t) ==
    /\ t.PubKey[1] = "pub"
    /\ t.Signature = <<"sig", t.PubKey[2],
                       MarshalPayload(t.SenderID, t.ReceiverID, t.Amount,
                                      t.Timestamp, t.Note)>>
    /\ t.PubKey[2] = t.SenderID
    /\ \A k \in InputKeys(t) :
            k \in DOMAIN U /\ U[k].Spent = FALSE /\ U[k].Owner = t.SenderID
    /\ InputTotal(U, t) = OutputTotal(t)

\* the fields the signature covers
SignedFields(t) == <<t.SenderID, t.ReceiverID, t.Amount, t.Timestamp, t.Note>>

\* C9: ValidateTransaction returns nil exactly when the signature verifies
\* over the payload under the declared key, the key's wallet id is the
\* sender, every input exists, is unspent and owned by the sender, and the
\* input and output sums agree; otherwise it returns an error, and a
\* transaction whose sender, receiver, amount, timestamp or note was changed
\* after signing is rejected.
C9_ValidateContract ==
    [][ \A p \in Senders :
            /\ pc'[p] \in {"built", "altered"} =>
                   /\ ~ValidatePanics(tx'[p])
                   /\ ValidateTransaction(UTXOs', tx'[p]) <=> C9_Conditions(UTXOs', tx'[p])
            /\ (pc[p] = "built" /\ pc'[p] = "altered"
                    /\ SignedFields(tx'[p]) # SignedFields(tx[p])) =>
                   ~ValidateTransaction(UTXOs', tx'[p]) ]_vars

---------------------------------------------------------------------------
\* Sealing and the chain.

\* a step that seals, and the block it appended
Seals == Len(Chain') # Len(Chain)
NewBlock == Chain'[Len(Chain')]

\* the miner a sealing step was called for
SealMiners == IF zs.pc = "mine" /\ zs'.pc = "idle" THEN {ZakatPool} ELSE wallets \cap Miners

\* C11: a seal commits the reward transaction followed by the pending pool in
\* submission order and leaves the pool empty; the reward has no inputs and
\* one output of 50 owned by the miner; sealing an empty pool gives a block
\* of exactly the reward with a non-empty Merkle root.
C11_SealContents ==
    [][ Seals =>
          LET r == NewBlock.Transactions[1]
          IN  /\ NewBlock.Transactions = <<r>> \o Pending
              /\ Pending' = <<>>
              /\ r.Type = "mining_reward"
              /\ r.Inputs = <<>>
              /\ Len(r.Outputs) = 1
              /\ r.Outputs[1].Amount = 50
              /\ r.Outputs[1].Owner \in SealMiners
              /\ r.ReceiverID = r.Outputs[1].Owner
              /\ Pending = <<>> =>
                    /\ Len(NewBlock.Transactions) = 1
                    /\ NewBlock.MerkleRoot = Sha256(r.ID)
                    /\ NewBlock.MerkleRoot # EmptyHash ]_vars

\* C11 witness: the chain holds a block of the reward alone and a block of
\* the reward followed by two pooled transactions.
C11_Witness ==
    /\ \E i \in 2..Len(Chain) : Len(Chain[i].Transactions) = 1
    /\ \E i \in 2..Len(Chain) : Len(Chain[i].Transactions) = 3
    /\ Pending = <<>>

\* the shape of the genesis block
GenesisShape(g) ==
    /\ g.Index = 0
    /\ g.Transactions = <<>>
    /\ g.PreviousHash = <<"0">>
    /\ g.Nonce = 0
    /\ g.Hash = hashBlock(g)

\* C12: the first block of the chain is always the genesis block (index 0, no
\* transactions, previousHash "0", nonce 0, hash = hashBlock of its own
\* fields), and no step changes or removes it.
C12_GenesisFixed ==
    /\ GenesisShape(Chain[1])
    /\ [][Len(Chain') >= 1 /\ Chain'[1] = Chain[1]]_vars

\* C12 witness: blocks were sealed on top of the genesis block.
C12_Witness ==
    /\ Len(Chain) = MaxBlocks + 1
    /\ GenesisShape(Chain[1])

\* C13: block i has index i and the hash of block i-1 as previousHash; a step
\* leaves the chain as it is or (a seal) appends exactly one block, and the
\* blocks already in the chain stay as they are.
C13_AppendOnly ==
    /\ [](\A i \in 2..Len(Chain) :
            Chain[i].Index = i - 1 /\ Chain[i].PreviousHash = Chain[i - 1].Hash)
    /\ [][ \/ Chain' = Chain
           \/ /\ Len(Chain') = Len(Chain) + 1
              /\ SubSeq(Chain', 1, Len(Chain)) = Chain
              /\ Pending' = <<>> ]_vars

\* C13 witness: two sealed blocks, the second linked to the first.
C13_Witness ==
    /\ Len(Chain) >= 3
    /\ Chain[3].PreviousHash = Chain[2].Hash
    /\ Chain[3].PreviousHash # Chain[1].Hash

\* the nonces of the search's budget whose hash of block b conforms
Conforming(b, nonceStart) ==
    {n \in nonceStart..nonceStart + MaxIterations - 1 :
        HasDifficultyPrefix(hashBlock([b EXCEPT !.Nonce = n]))}

\* C14: a seal commits exactly one block; if a nonce within the budget
\* conforms, the block carries the smallest such nonce and its hash, else the
\* block carries the last nonce tried and its non-conforming hash.
C14_BoundedSearch ==
    [][ Seals =>
          /\ Len(Chain') = Len(Chain) + 1
          /\ NewBlock.Hash = hashBlock(NewBlock)
          /\ \E nonceStart \in NonceStarts :
                LET ok == Conforming(NewBlock, nonceStart)
                IN  IF ok # {}
                    THEN /\ NewBlock.Nonce \in ok
                         /\ \A n \in ok : NewBlock.Nonce <= n
                         /\ HasDifficultyPrefix(NewBlock.Hash)
                    ELSE /\ NewBlock.Nonce = nonceStart + MaxIterations - 1
                         /\ ~HasDifficultyPrefix(NewBlock.Hash) ]_vars

\* C14 witness: one block found its nonce after a failed first try, another
\* was committed with the budget exhausted.
C14_Witness ==
    /\ \E i \in 2..Len(Chain) :
            HasDifficultyPrefix(Chain[i].Hash) /\ Chain[i].Nonce > 0
    /\ \E i \in 2..Len(Chain) : ~HasDifficultyPrefix(Chain[i].Hash)

---------------------------------------------------------------------------
\* The periodic levy.

\* whether transaction t touches account w: as sender, receiver, owner of an
\* output or owner of a referenced input
Involves(t, w) ==
    \/ t.SenderID = w
    \/ t.ReceiverID = w
    \/ \E i \in DOMAIN t.Outputs : t.Outputs[i].Owner = w
    \/ \E k \in InputKeys(t) : k \in DOMAIN UTXOs /\ UTXOs[k].Owner = w

\* the positions of the pool holding a levy that is the only pooled
\* transaction touching its account
LoneLevies ==
    {i \in DOMAIN Pending :
        /\ Pending[i].Type = "zakat_deduction"
        /\ \A j \in DOMAIN Pending \ {i} : ~Involves(Pending[j], Pending[i].SenderID)}

\* C15: the levy generated for an eligible account with balance b is
\* floor(b * 0.025) = floor(b / 40), paid to ZAKAT_POOL with the remainder of
\* the selected inputs returned to the account; when no other pending
\* transaction involves the account, the cycle's seal leaves the account with
\* b - levied.
C15_LevyAmount ==
    [][ /\ (zs.pc = "append" /\ zs'.pc = "loop") =>
               /\ Pending' = Append(Pending, zs.tx)
               /\ zs.tx.SenderID = zs.w
               /\ zs.tx.Amount = zs.balance \div 40
               /\ zs.tx.ReceiverID = "ZAKAT_POOL"
               /\ zs.tx.Outputs[1].Owner = "ZAKAT_POOL"
               /\ zs.tx.Outputs[1].Amount = zs.tx.Amount
               /\ \A i \in 2..Len(zs.tx.Outputs) : zs.tx.Outputs[i].Owner = zs.w
               /\ OutputTotal(zs.tx) = InputTotal(UTXOs, zs.tx)
        /\ (zs.pc = "mine" /\ zs'.pc = "idle" /\ Seals) =>
               \A i \in LoneLevies :
                   LET w == Pending[i].SenderID
                       b == GetBalance(UTXOs, w)
                   IN  Pending[i].Amount = b \div 40 =>
                           GetBalance(UTXOs', w) = b - Pending[i].Amount ]_vars

\* the levies of account w in the pool
LeviesOf(w) ==
    {i \in DOMAIN Pending :
        Pending[i].Type = "zakat_deduction" /\ Pending[i].SenderID = w}

LevyBuildFails ==
    \A r \in CreateZakatTransaction(UTXOs, now, zs.w, zs.amount) : r.err

\* C18: when CreateZakatTransaction fails for an account, nothing is pooled
\* for it, its lastProcessed stays, and the cycle goes on with the remaining
\* accounts; a cycle ends only after all accounts, with the seal if the pool
\* is not empty.
C18_FailureIsolated ==
    [][ /\ (zs.pc = "build" /\ zs' # zs) =>
               IF LevyBuildFails
               THEN /\ zs'.pc = "loop"
                    /\ zs'.todo = zs.todo
                    /\ Pending' = Pending
                    /\ lastProcessed' = lastProcessed
               ELSE zs'.pc = "append"
        /\ (zs.pc = "loop" /\ zs.todo = {} /\ zs' # zs) =>
               zs'.pc = (IF Pending # <<>> THEN "mine" ELSE "idle")
        /\ (zs.pc = "mine" /\ zs' # zs) =>
               Seals /\ NewBlock.Transactions[1].ReceiverID = ZakatPool
        /\ (zs.pc # "idle" /\ zs'.pc = "idle") => zs.todo = {} ]_vars

\* C18 witness: the cycle read a balance of 1000 for an account whose coins
\* were spent before the selection, and has more accounts to visit.
C18_Witness ==
    /\ zs.pc = "build"
    /\ zs.balance = 1000
    /\ LevyBuildFails
    /\ zs.todo # {}

----------------------------------------------------------------------------
\* The scheduler on its own: main's Start and deferred Stop, the ticker, the
\* loop goroutine of Start and the cycles it runs, with wallets being created
\* and the clock advancing by DaysPerTick days a step.

InitSched ==
    /\ wallets = {}
    /\ Chain = <<Genesis>>
    /\ Pending = <<>>
    /\ UTXOs = <<>>
    /\ now = 0
    /\ faucets = 0
    /\ sends = 0
    /\ cycles = 0
    /\ pc = [p \in Senders |-> "idle"]
    /\ tx = [p \in Senders |-> NoTx]
    /\ sel = [p \in Senders |-> <<>>]
    /\ zs = ZakatIdle
    /\ lastProcessed = [w \in Wallets |-> NoTime]
    /\ life = NotStarted
    /\ mu = Unlocked
    /\ seen = NoRead

\* ZakatService.Start: NewTicker, then the loop goroutine
SchedStart ==
    /\ life.ticker = "none"
    /\ life' = [life EXCEPT !.ticker = "running", !.loop = "running"]
    /\ UNCHANGED <<wallets, ledger, now, handlers, scheduler, counters, mu, seen>>

\* the running ticker puts a tick into ticker.C, a channel of capacity one
TickerFires ==
    /\ life.ticker = "running"
    /\ ~life.tick
    /\ life' = [life EXCEPT !.tick = TRUE]
    /\ UNCHANGED <<wallets, ledger, now, handlers, scheduler, counters, mu, seen>>

\* the loop's select takes the tick and calls ProcessMonthlyZakat
LoopTick ==
    /\ life.loop = "running"
    /\ life.tick
    /\ cycles < MaxLevyCycles
    /\ Len(Chain) <= MaxBlocks
    /\ ZakatEnter
    /\ life' = [life EXCEPT !.tick = FALSE]

\* ZakatService.Stop: ticker.Stop(), then the send on the unbuffered done
\* blocks until the loop receives
StopCall ==
    /\ life.ticker = "running"
    /\ life.stop = "idle"
    /\ life' = [life EXCEPT !.ticker = "stopped", !.stop = "sending"]
    /\ UNCHANGED <<wallets, ledger, now, handlers, scheduler, counters, mu, seen>>

\* a loop that takes done in the middle of a cycle
LoopDone_Preempts ==
    /\ life.loop = "running"
    /\ life.stop = "sending"
    /\ life' = [life EXCEPT !.loop = "exited", !.stop = "returned"]
    /\ UNCHANGED <<wallets, ledger, now, handlers, scheduler, counters, mu, seen>>

\* the loop's select takes done and returns; the send of Stop completes
LoopDone ==
    /\ life.loop = "running"
    /\ zs.pc = "idle"
    /\ life.stop = "sending"
    /\ life' = [life EXCEPT !.loop = "exited", !.stop = "returned"]
    /\ UNCHANGED <<wallets, ledger, now, handlers, scheduler, counters, mu, seen>>

\* the steps of a cycle's loop over the wallets
CycleStep == ZakatVisit \/ ZakatBuild \/ ZakatAppend \/ ZakatCheck

\* the cycle's Mine call returns: what a ZakatMine step does to the scheduler
MineReturns ==
    /\ zs.pc = "mine"
    /\ Len(Chain) <= MaxBlocks
    /\ zs' = ZakatIdle

NextSched ==
    \/ SchedStart
    \/ TickUpTo(MaxLevyTime)
    \/ \E w \in Wallets : CreateWallet(w)
    \/ TickerFires
    \/ LoopTick
    \/ ZakatVisit
    \/ ZakatBuild
    \/ ZakatAppend
    \/ ZakatCheck
    \/ ZakatMine
    \/ StopCall
    \/ LoopDone

SpecSched == InitSched /\ [][NextSched]_vars

\* the loop goroutine keeps running: a cycle it is in takes its next step,
\* the bounded search of its Mine call ends, and a select with done ready
\* and no tick left to take receives from done
SpecSchedFair ==
    /\ InitSched
    /\ [][NextSched]_vars
    /\ WF_vars(CycleStep)
    /\ WF_zs(MineReturns)
    /\ WF_vars(LoopDone)

C19_StopIsClean ==
    /\ (life.stop = "sending") ~> (life.loop = "exited" /\ life.stop = "returned")
    /\ (life.stop = "sending" /\ zs.pc # "idle") ~> (zs.pc = "idle")
    /\ [][ /\ (life.loop = "running" /\ life'.loop = "exited") => zs.pc = "idle"
           /\ (zs.pc # "idle" /\ zs'.pc = "idle") =>
                /\ zs.todo = {}
                /\ Pending # <<>> => (Seals /\ Pending' = <<>>)
           /\ life.stop = "returned" => ~(zs.pc = "idle" /\ zs'.pc # "idle")
        ]_vars

\* Stop has been called while a cycle is at its seal
C19_Witness ==
    /\ life.stop = "sending"
    /\ life.loop = "running"
    /\ zs.pc = "mine"
    /\ Pending # <<>>

----------------------------------------------------------------------------
\* Mine step by step under Blockchain.mu, next to the operations that take
\* the lock (each of them one step while the lock is free) and the handlers
\* that read Blockchain.Chain and Blockchain.UTXOs without taking it.

\* the runtime has not stopped the process
Alive == ~seen.torn

\* handleCreateWallet: CreateFaucetUTXO takes the lock
LockedCreateWallet(w) == Alive /\ mu.pc = "free" /\ CreateWallet(w)

\* an AddPending that does not take the lock
SendAppend_NoLock(p) == Alive /\ SendAppend(p)


\* handleSend: SelectUTXOs, ValidateTransaction and AddPending take the lock
LockedSendBuild(p) == Alive /\ mu.pc = "free" /\ SendBuild(p)
LockedSendValidate(p) == Alive /\ mu.pc = "free" /\ SendValidate(p)
LockedSendAppend(p) == Alive /\ mu.pc = "free" /\ SendAppend(p)

\* Mine: Lock, the block built from the pool, the nonce search
SealLock ==
    /\ Alive
    /\ mu.pc = "free"
    /\ Len(Chain) <= MaxBlocks
    /\ \E miner \in wallets \cap Miners, nonceStart \in NonceStarts :
        mu' = [pc |-> "append", i |-> 1,
               b |-> MineBlock(Chain, Pending, now, nonceStart, miner)]
    /\ UNCHANGED <<wallets, ledger, now, handlers, scheduler, counters, life, seen>>

\* Mine: bc.Chain = append(bc.Chain, b)
SealAppend ==
    /\ Alive
    /\ mu.pc = "append"
    /\ Chain' = Append(Chain, mu.b)
    /\ mu' = [mu EXCEPT !.pc = "commit"]
    /\ UNCHANGED <<wallets, UTXOs, Pending, now, handlers, scheduler, counters, life, seen>>

\* Mine: one round of the commit loop, for transaction mu.i of the block
SealCommitTx ==
    /\ Alive
    /\ mu.pc = "commit"
    /\ mu.i <= Len(mu.b.Transactions)
    /\ LET t == mu.b.Transactions[mu.i]
       IN  UTXOs' = PutOutputs(MarkInputs(UTXOs, t.Inputs), t.ID, t.Outputs, 0)
    /\ mu' = [mu EXCEPT !.i = @ + 1]
    /\ UNCHANGED <<wallets, Chain, Pending, now, handlers, scheduler, counters, life, seen>>

\* Mine: the pool is cleared and the deferred Unlock runs
SealUnlock ==
    /\ Alive
    /\ mu.pc = "commit"
    /\ mu.i > Len(mu.b.Transactions)
    /\ Pending' = <<>>
    /\ mu' = Unlocked
    /\ UNCHANGED <<wallets, Chain, UTXOs, now, handlers, scheduler, counters, life, seen>>

\* handleBlocks, handleGetBlock, handleGetTransactions, handleWalletReport,
\* handleSystemReport: s.bc.Chain is read with no lock taken
ReadChain ==
    /\ Alive
    /\ seen.op = "none"
    /\ seen' = [op |-> "chain", held |-> mu.pc # "free",
                partial |-> mu.pc = "commit", torn |-> FALSE]
    /\ UNCHANGED <<wallets, ledger, now, handlers, scheduler, counters, life, mu>>

\* handleGetUTXOs: the range over s.bc.UTXOs with no lock taken; next to the
\* commit loop's writes the runtime may stop the process (concurrent map
\* iteration and map write) or the range returns a mix of old and new entries
ReadUTXOs ==
    /\ Alive
    /\ seen.op = "none"
    /\ \E torn \in BOOLEAN :
        /\ torn => (mu.pc = "commit" /\ mu.i <= Len(mu.b.Transactions))
        /\ seen' = [op |-> "utxos", held |-> mu.pc # "free",
                    partial |-> mu.pc = "commit" /\ mu.i > 1, torn |-> torn]
    /\ UNCHANGED <<wallets, ledger, now, handlers, scheduler, counters, life, mu>>

\* the handler writes its response
ReadRespond ==
    /\ Alive
    /\ seen.op # "none"
    /\ seen' = NoRead
    /\ UNCHANGED <<wallets, ledger, now, handlers, scheduler, counters, life, mu>>

NextRace ==
    \/ \E w \in Wallets : LockedCreateWallet(w)
    \/ \E p \in Senders : LockedSendBuild(p)
    \/ \E p \in Senders : LockedSendValidate(p)
    \/ \E p \in Senders : LockedSendAppend(p)
    \/ SealLock
    \/ SealAppend
    \/ SealCommitTx
    \/ SealUnlock
    \/ ReadChain
    \/ ReadUTXOs
    \/ ReadRespond

SpecRace == Init /\ [][NextRace]_vars

\* C20: no read of the chain or of the UTXO set happens while a seal holds
\* the lock, so no read returns a chain whose last block is not yet committed
\* or a UTXO set holding part of a block, and none runs into the seal's writes.
C20_SealExclusive ==
    seen.op # "none" => (~seen.held /\ ~seen.partial /\ ~seen.torn)

\* the UTXO keys the inputs of a block's transactions refer to
BlockInputKeys(b) ==
    UNION {InputKeys(b.Transactions[i]) : i \in DOMAIN b.Transactions}

\* the UTXO keys the outputs of a block's transactions are stored under
BlockOutputKeys(b) ==
    UNION {{UTXOKey(b.Transactions[i].ID, j - 1) :
                j \in DOMAIN b.Transactions[i].Outputs} :
           i \in DOMAIN b.Transactions}

\* C21: after a seal every UTXO an input of the block refers to is in the
\* UTXO set and spent, every output i of every transaction of the block is in
\* the set under (transaction id, i) with its owner and amount and unspent,
\* and the entries the block does not refer to are as before.
C21_CommitEffect ==
    [][ Seals =>
          /\ \A k \in BlockInputKeys(NewBlock) :
                k \in DOMAIN UTXOs' /\ UTXOs'[k].Spent
          /\ \A i \in DOMAIN NewBlock.Transactions :
                LET t == NewBlock.Transactions[i]
                IN  \A j \in DOMAIN t.Outputs :
                        LET k == UTXOKey(t.ID, j - 1)
                        IN  /\ k \in DOMAIN UTXOs'
                            /\ UTXOs'[k].Owner = t.Outputs[j].Owner
                            /\ UTXOs'[k].Amount = t.Outputs[j].Amount
                            /\ ~UTXOs'[k].Spent
          /\ \A k \in DOMAIN UTXOs :
                k \notin BlockInputKeys(NewBlock) \cup BlockOutputKeys(NewBlock) =>
                    (k \in DOMAIN UTXOs' /\ UTXOs'[k] = UTXOs[k]) ]_vars

\* C22: the pool changes only by one transaction appended at its end or by a
\* seal's clearing, and a seal clears exactly the transactions its block
\* holds after the reward, in order; a block is appended only with the whole
\* pool in it and the earlier blocks stay.  So a pooled transaction waits for
\* the next seal, goes into that block alone and does not come back.
C22_NoLossNoDuplicate ==
    [][ /\ Pending' # Pending =>
            \/ /\ Len(Pending') = Len(Pending) + 1
               /\ SubSeq(Pending', 1, Len(Pending)) = Pending
               /\ Chain' = Chain
            \/ /\ Pending' = <<>>
               /\ mu.pc = "commit"
               /\ Tail(Chain[Len(Chain)].Transactions) = Pending
        /\ Chain' # Chain =>
            /\ Len(Chain') = Len(Chain) + 1
            /\ SubSeq(Chain', 1, Len(Chain)) = Chain
            /\ Tail(NewBlock.Transactions) = Pending
            /\ Pending' = Pending
            /\ mu'.pc = "commit"
        /\ (mu.pc # "free" /\ mu'.pc # "free") => Pending' = Pending ]_vars

\* a validated transfer waits at AddPending while a seal that took a
\* non-empty pool is in its commit
C22_Witness ==
    /\ mu.pc = "commit"
    /\ Len(mu.b.Transactions) > 1
    /\ \E p \in Senders : pc[p] = "validated"

\* whether a sealed block holds a levy of account w
LevySealed(C, w) ==
    \E i \in DOMAIN C : \E j \in DOMAIN C[i].Transactions :
        /\ C[i].Transactions[j].Type = "zakat_deduction"
        /\ C[i].Transactions[j].SenderID = w

\* C23: after its loop a cycle goes on to Mine exactly when the pool is not
\* empty at that check, and that Mine seals for ZAKAT_POOL; a cycle that
\* finds the pool empty ends without a block.  When a cycle ends no levy is
\* left in the pool: every account levied in it has its levy in a block.
C23_CycleEndSeal ==
    [][ /\ (zs.pc = "loop" /\ zs.todo = {} /\ zs' # zs) =>
            /\ Chain' = Chain
            /\ zs'.pc = IF Pending # <<>> THEN "mine" ELSE "idle"
        /\ (zs.pc # "mine" /\ zs'.pc = "mine") =>
            (zs.pc = "loop" /\ zs.todo = {} /\ Pending # <<>>)
        /\ (zs.pc = "mine" /\ zs' # zs) =>
            /\ Seals
            /\ zs'.pc = "idle"
            /\ NewBlock.Transactions[1].ReceiverID = ZakatPool
            /\ NewBlock.Transactions[1].Outputs[1].Owner = ZakatPool
            /\ Tail(NewBlock.Transactions) = Pending
        /\ (zs.pc # "idle" /\ zs'.pc = "idle") =>
            /\ \A w \in Wallets : LeviesOf(w)' = {}
            /\ \A w \in Wallets :
                (lastProcessed[w] # NoTime) => LevySealed(Chain', w) ]_vars

\* a cycle has ended with its levy in a block sealed for ZAKAT_POOL
C23_Witness ==
    /\ zs.pc = "idle"
    /\ cycles > 0
    /\ \E i \in 2..Len(Chain) :
        /\ Chain[i].Transactions[1].ReceiverID = ZakatPool
        /\ \E j \in 2..Len(Chain[i].Transactions) :
            Chain[i].Transactions[j].Type = "zakat_deduction"

\* C24: an entry of the UTXO set is never removed, keeps its owner and its
\* amount, and once spent stays spent.
C24_EntriesMonotone ==
    [][ \A k \in DOMAIN UTXOs :
            /\ k \in DOMAIN UTXOs'
            /\ UTXOs'[k].Owner = UTXOs[k].Owner
            /\ UTXOs'[k].Amount = UTXOs[k].Amount
            /\ UTXOs[k].Spent => UTXOs'[k].Spent ]_vars

\* the orderings of a list of transactions
Orderings(txs) ==
    {[i \in DOMAIN txs |-> txs[f[i]]] :
        f \in {g \in [DOMAIN txs -> DOMAIN txs] :
                  \A i, j \in DOMAIN txs : i # j => g[i] # g[j]}}

\* C25: the Merkle root stored in a block is the root computeMerkle gives for
\* every ordering of the block's transactions.
C25_MerkleOrderFree ==
    \A n \in DOMAIN Chain :
        \A txs \in Orderings(Chain[n].Transactions) :
            computeMerkle(txs) = Chain[n].MerkleRoot

\* C26: every block of the chain stores the hash hashBlock gives for the
\* block's own index, timestamp, transaction ids, previous hash and nonce,
\* whatever the order of its transaction list and whatever its other fields.
C26_HashOfOwnFields ==
    \A n \in DOMAIN Chain :
        LET b == Chain[n]
        IN  /\ b.Hash = hashBlock(b)
            /\ b.Hash = hashBlock([b EXCEPT !.Hash = EmptyHash,
                                            !.MerkleRoot = EmptyHash])
            /\ \A txs \in Orderings(b.Transactions) :
                    hashBlock([b EXCEPT !.Transactions = txs]) = b.Hash

\* the chain holds the genesis block, a block of several transactions sealed
\* with a conforming nonce, and a block committed with the budget exhausted
C26_Witness ==
    /\ Len(Chain) = 3
    /\ \E i \in 2..3 : /\ HasDifficultyPrefix(Chain[i].Hash)
                       /\ Len(Chain[i].Transactions) >= 2
    /\ \E i \in 2..3 : /\ ~HasDifficultyPrefix(Chain[i].Hash)
                       /\ Chain[i].Nonce = MaxIterations - 1

\* the sum of the amounts of all unspent UTXOs, owner by owner
RECURSIVE TotalUnspent(_, _)
TotalUnspent(U, owners) ==
    IF owners = {} THEN 0
    ELSE LET w == CHOOSE x \in owners : TRUE
         IN  GetBalance(U, w) + TotalUnspent(U, owners \ {w})

\* C27: the unspent amounts add up to 1000 for each faucet grant plus 50 for
\* each block sealed after the genesis block.
C27_ValueConserved ==
    TotalUnspent(UTXOs, BalanceAccounts)
        = FaucetAmount * faucets + MiningReward * (Len(Chain) - 1)

\* the transactions of the blocks of a chain, one after the other
RECURSIVE ChainTxs(_)
ChainTxs(C) ==
    IF C = <<>> THEN <<>> ELSE Head(C).Transactions \o ChainTxs(Tail(C))

\* the transactions the handlers and the scheduler hold between their
\* construction and AddPending
RECURSIVE HeldTxs(_)
HeldTxs(ps) ==
    IF ps = {} THEN <<>>
    ELSE LET p == CHOOSE x \in ps : TRUE
         IN  (IF pc[p] \in {"built", "validated"} THEN <<tx[p]>> ELSE <<>>)
             \o HeldTxs(ps \ {p})

\* every transaction built so far: sealed, pooled or still held
AllBuilt ==
    ChainTxs(Chain) \o Pending \o HeldTxs(Senders)
        \o (IF zs.pc = "append" THEN <<zs.tx>> ELSE <<>>)

\* C28: no two transactions built by CreateTransaction, by
\* CreateZakatTransaction or as a block's reward have the same id, and a
\* seal stores every output under a key that is new to the UTXO set.
C28_IdsUnique ==
    /\ [](\A i, j \in DOMAIN AllBuilt : i # j => AllBuilt[i].ID # AllBuilt[j].ID)
    /\ [][ Seals => BlockOutputKeys(NewBlock) \cap DOMAIN UTXOs = {} ]_vars

---------------------------------------------------------------------------
\* The system with transfers of any amount asked for, zero included.

\* the amounts asked for, with the zero a request's uint64 field may carry
AnyAmounts == SendAmounts \cup {0}

\* handleSend up to the return of CreateTransaction, for any amount
SendBuildAny(p) ==
    \E sender \in AccountIds, receiver \in AccountIds, amount \in AnyAmounts,
       note \in SendNotes, priv \in PrivKeys \cup {BadRequestKey} :
        /\ receiver # sender
        /\ priv \in {PrivKeyOf(sender), BadRequestKey}
        /\ SendBuildStep(p, sender, receiver, amount, note, priv)

NextAny ==
    \/ \E w \in Wallets : CreateWallet(w)
    \/ \E p \in Senders : SendBuildAny(p)
    \/ \E p \in Senders : SendValidate(p)
    \/ \E p \in Senders : SendAppend(p)
    \/ Mine
    \/ ZakatStart
    \/ ZakatVisit
    \/ ZakatBuild
    \/ ZakatAppend
    \/ ZakatCheck
    \/ ZakatMine

SpecAny == Init /\ [][NextAny]_vars

\* C29: every transfer and every levy in the pending pool has at least one
\* input, and each of its outputs has an amount above zero.
C29_DebitsHaveInputs ==
    \A i \in DOMAIN Pending :
        IsDebit(Pending[i]) =>
            /\ Len(Pending[i].Inputs) >= 1
            /\ \A j \in DOMAIN Pending[i].Outputs :
                    Pending[i].Outputs[j].Amount > 0

\* the outputs pay t.Amount to the receiver and the rest, if any, to the sender
OutputsMatch(t) ==
    /\ Len(t.Outputs) \in {1, 2}
    /\ t.Outputs[1].Owner = t.ReceiverID
    /\ t.Outputs[1].Amount = t.Amount
    /\ Len(t.Outputs) = 2 => t.Outputs[2].Owner = t.SenderID

\* C30: ValidateTransaction accepts a transfer only when its outputs pay
\* Amount to ReceiverID and the remainder to SenderID; of two transactions
\* with the same signed fields and inputs but other outputs, it accepts at
\* most one.
C30_OutputsBound ==
    [][ \A p \in Senders :
            /\ (pc'[p] \in {"built", "altered"}
                    /\ ValidateTransaction(UTXOs', tx'[p])) =>
                   OutputsMatch(tx'[p])
            /\ (pc[p] = "built" /\ pc'[p] = "altered"
                    /\ SignedFields(tx'[p]) = SignedFields(tx[p])
                    /\ tx'[p].Inputs = tx[p].Inputs
                    /\ tx'[p].Outputs # tx[p].Outputs) =>
                   ~(ValidateTransaction(UTXOs, tx[p])
                        /\ ValidateTransaction(UTXOs', tx'[p])) ]_vars

====
